---------------------------- MODULE Spec2Model ----------------------------
(* Model of the Azure cost API backend (src/backend/api): the TTL cache    *)
(* CostCache, the retrying query executor AzureCostService._query_costs,   *)
(* the aggregation of get_cost_summary and the forecast of get_forecast.   *)
(*                                                                         *)
(* Time is counted in whole seconds.  A request is one asyncio task; an    *)
(* action is the code a task runs between two suspension points (the       *)
(* network wait of client.post and asyncio.sleep).                         *)
EXTENDS Integers, Sequences, FiniteSets, TLC

(***************************************************************************)
(* Bounds of the model.                                                    *)
(***************************************************************************)
MaxTicks == 2        \* clock advances explored in one behaviour
MaxRetriesArg == 3   \* largest max_retries of a direct _query_costs call
MaxRows == 3         \* longest row sequence given to the aggregation
MantissaBits == 3    \* significand width of the scaled-down binary float

(***************************************************************************)
(* Program constants.                                                      *)
(***************************************************************************)
CacheTtlSeconds == 300      \* CostCache(ttl_seconds=300)
DefaultMaxRetries == 3      \* _query_costs(..., max_retries: int = 3)
DefaultRetryAfter == 60     \* response.headers.get("Retry-After", 60)
TooManyRequests == 429      \* response.status_code == 429

\* None, for the values that are records or sequences; a field that holds a
\* str or an int has its own value for "nothing"
None == <<>>
NoToken == 0                \* self._token = None
\* the tasks; each serves one request
Procs == {"r1", "r2"}

VARIABLES
    now,        \* datetime.now(), seconds since the service was constructed
    ticks,      \* clock advances so far
    today,      \* date.today()
    ttl,        \* CostCache.ttl
    cache,      \* CostCache._cache: key -> [timestamp, value]
    lastSet,    \* history: key -> [at, value] of the latest CostCache.set
    lastGet,    \* history: the latest CostCache.get and what it returned
    token,      \* AzureCostService._token
    issued,     \* tokens handed out by credential.get_token so far
    req,        \* per task: position, locals and per-call history
    rowsIn,     \* aggregation alone: the service rows given
    aggOut      \* aggregation alone: the outcome

vars == <<now, ticks, today, ttl, cache, lastSet, lastGet, token, issued,
          req, rowsIn, aggOut>>

(***************************************************************************)
(* Sequence helpers.                                                       *)
(***************************************************************************)
Last(s) == s[Len(s)]

RECURSIVE SeqsUpTo(_, _)
SeqsUpTo(S, n) ==
    IF n = 0 THEN {<<>>}
    ELSE LET shorter == SeqsUpTo(S, n - 1)
         IN  shorter \cup {Append(s, x) : s \in {t \in shorter : Len(t) = n - 1}, x \in S}

(***************************************************************************)
(* Python float, scaled down: a value is an integer with at most           *)
(* MantissaBits significant bits; an arithmetic result is rounded to the   *)
(* nearest such value, ties to the even significand (IEEE 754 default).    *)
(***************************************************************************)
Abs(x) == IF x < 0 THEN -x ELSE x

RECURSIVE Pow2(_)
Pow2(n) == IF n = 0 THEN 1 ELSE 2 * Pow2(n - 1)

RECURSIVE Ulp(_)
\* spacing of the representable values around magnitude m
Ulp(m) == IF m < Pow2(MantissaBits) THEN 1 ELSE 2 * Ulp(m \div 2)

RoundMagnitude(m) ==
    LET u    == Ulp(m)
        down == (m \div u) * u
        rem  == m - down
    IN  IF 2 * rem < u THEN down
        ELSE IF 2 * rem > u THEN down + u
        ELSE IF (down \div u) % 2 = 0 THEN down ELSE down + u

FloatRound(x) == IF x < 0 THEN -RoundMagnitude(-x) ELSE RoundMagnitude(x)

\* a + b in float arithmetic
FloatAdd(a, b) == FloatRound(a + b)


(***************************************************************************)
(* Calendar dates (datetime.date) as records [year, month, day].           *)
(***************************************************************************)
Date(y, m, d) == [year |-> y, month |-> m, day |-> d]

IsLeap(y) == (y % 4 = 0) /\ ((y % 100 # 0) \/ (y % 400 = 0))

DaysInMonth(y, m) ==
    IF m = 2 THEN (IF IsLeap(y) THEN 29 ELSE 28)
    ELSE IF m \in {4, 6, 9, 11} THEN 30 ELSE 31

\* the arguments date(y, m, d) accepts; any other raises ValueError
IsValidDate(y, m, d) ==
    /\ y \in 1..9999
    /\ m \in 1..12
    /\ d \in 1..DaysInMonth(y, m)

PrevDay(dt) ==
    IF dt.day > 1 THEN Date(dt.year, dt.month, dt.day - 1)
    ELSE IF dt.month > 1
         THEN Date(dt.year, dt.month - 1, DaysInMonth(dt.year, dt.month - 1))
         ELSE Date(dt.year - 1, 12, 31)

NextDay(dt) ==
    IF dt.day < DaysInMonth(dt.year, dt.month)
    THEN Date(dt.year, dt.month, dt.day + 1)
    ELSE IF dt.month < 12 THEN Date(dt.year, dt.month + 1, 1)
         ELSE Date(dt.year + 1, 1, 1)

RECURSIVE MinusDays(_, _)
\* dt - timedelta(days=n)
MinusDays(dt, n) == IF n = 0 THEN dt ELSE MinusDays(PrevDay(dt), n - 1)

RECURSIVE PlusDays(_, _)
\* dt + timedelta(days=n)
PlusDays(dt, n) == IF n = 0 THEN dt ELSE PlusDays(NextDay(dt), n - 1)

\* the order of datetime.date
DateLess(a, b) ==
    \/ a.year < b.year
    \/ a.year = b.year /\ a.month < b.month
    \/ a.year = b.year /\ a.month = b.month /\ a.day < b.day

(***************************************************************************)
(* CostCache: the in-memory cache with a time-to-live.                     *)
(***************************************************************************)
\* (datetime.now() - timestamp).total_seconds() < self.ttl
IsFreshBoundaryIncluded(t, timestamp, ttlSeconds) == t - timestamp <= ttlSeconds

IsFresh(t, timestamp, ttlSeconds) == t - timestamp < ttlSeconds

\* CostCache.get: the value returned and the dict it leaves
CostCacheGetNoExpiry(c, key, t, ttlSeconds) ==
    IF key \in DOMAIN c THEN [value |-> c[key].value, cache |-> c]
    ELSE [value |-> None, cache |-> c]

CostCacheGet(c, key, t, ttlSeconds) ==
    IF key \in DOMAIN c
    THEN IF IsFresh(t, c[key].timestamp, ttlSeconds)
         THEN [value |-> c[key].value, cache |-> c]
         ELSE [value |-> None,
               cache |-> [k \in DOMAIN c \ {key} |-> c[k]]]
    ELSE [value |-> None, cache |-> c]

\* a set that merges into the summary it replaces: the service breakdown of
\* the old entry stays
CostCacheSetMerging(c, key, value, t) ==
    [k \in DOMAIN c \cup {key} |->
        IF k = key
        THEN [timestamp |-> t,
              value |-> IF key \in DOMAIN c /\ "costs_by_service" \in DOMAIN value
                        THEN [value EXCEPT !.costs_by_service =
                                               c[key].value.costs_by_service]
                        ELSE value]
        ELSE c[k]]

\* a set that keeps the timestamp of the entry it replaces
CostCacheSetKeepsTimestamp(c, key, value, t) ==
    [k \in DOMAIN c \cup {key} |->
        IF k = key
        THEN [timestamp |-> IF key \in DOMAIN c THEN c[key].timestamp ELSE t,
              value |-> value]
        ELSE c[k]]

\* CostCache.set: the dict it leaves
CostCacheSet(c, key, value, t) ==
    [k \in DOMAIN c \cup {key} |->
        IF k = key THEN [timestamp |-> t, value |-> value] ELSE c[k]]

\* the history kept beside a set
LogSet(log, key, value, t) ==
    [k \in DOMAIN log \cup {key} |->
        IF k = key THEN [at |-> t, value |-> value] ELSE log[k]]

(***************************************************************************)
(* Cache keys: f"costs_{days}" and "forecast", as sequences of characters. *)
(***************************************************************************)
DigitChar(d) == <<"0", "1", "2", "3", "4", "5", "6", "7", "8", "9">>[d + 1]

RECURSIVE Str(_)
\* str(n) of a non-negative int
Str(n) == IF n < 10 THEN <<DigitChar(n)>> ELSE Append(Str(n \div 10), DigitChar(n % 10))

CostsKeyWithoutDays(days) == <<"c", "o", "s", "t", "s", "_">>

CostsKey(days) == <<"c", "o", "s", "t", "s", "_">> \o Str(days)

ForecastKey == <<"f", "o", "r", "e", "c", "a", "s", "t">>

(***************************************************************************)
(* AzureCostService._get_token.  credential.get_token is the synchronous   *)
(* call of azure.identity: the task does not yield inside _get_token.      *)
(* outcome is what the credential does when it is asked.                   *)
(***************************************************************************)
TokenOutcomes == {"ok", "auth_error"}

\* a _get_token that asks the credential at every call
GetTokenEveryCall(tok, n, outcome) ==
    IF outcome = "ok"
    THEN [token |-> n + 1, issued |-> n + 1, raised |-> FALSE, asked |-> TRUE]
    ELSE [token |-> tok, issued |-> n, raised |-> TRUE, asked |-> TRUE]

GetToken(tok, n, outcome) ==
    IF tok = NoToken
    THEN IF outcome = "ok"
         THEN [token |-> n + 1, issued |-> n + 1, raised |-> FALSE, asked |-> TRUE]
         ELSE [token |-> NoToken, issued |-> n, raised |-> TRUE, asked |-> TRUE]
    ELSE [token |-> tok, issued |-> n, raised |-> FALSE, asked |-> FALSE]

(***************************************************************************)
(* Text to number: int(s) of a str, and Python's clamped slices.           *)
(***************************************************************************)
Digits == {DigitChar(d) : d \in 0..9}

DigitOf(ch) == CHOOSE d \in 0..9 : DigitChar(d) = ch

Min(a, b) == IF a < b THEN a ELSE b

\* s[a:b]
Slice(s, a, b) == SubSeq(s, a + 1, Min(b, Len(s)))

\* whether int(s) succeeds for a str of the model (decimal digits only)
IsDecimal(s) == Len(s) > 0 /\ \A i \in 1..Len(s) : s[i] \in Digits

RECURSIVE IntOf(_)
\* int(s) of a decimal str
IntOf(s) ==
    IF Len(s) = 0 THEN 0
    ELSE 10 * IntOf(SubSeq(s, 1, Len(s) - 1)) + DigitOf(s[Len(s)])

(***************************************************************************)
(* HTTP responses of the billing API.  A response is                       *)
(*   [status, retry_after, body]                                           *)
(* retry_after is the text of the Retry-After header, or Absent.           *)
(***************************************************************************)
Absent == <<>>
HttpDate == <<"W", "e", "d", ",", " ", "2", "1", " ", "O", "c", "t">>

Response(status, retry_after, body) ==
    [status |-> status, retry_after |-> retry_after, body |-> body]

\* response.status_code == 429
IsRateLimitedAnyError(status) == status >= 400

IsRateLimited(status) == status = TooManyRequests

\* int(response.headers.get("Retry-After", 60)): the seconds, or ValueError
RetryAfterAlwaysDefault(header) ==
    [raised |-> FALSE, seconds |-> DefaultRetryAfter]

RetryAfter(header) ==
    IF header = Absent THEN [raised |-> FALSE, seconds |-> DefaultRetryAfter]
    ELSE IF IsDecimal(header) THEN [raised |-> FALSE, seconds |-> IntOf(header)]
    ELSE [raised |-> TRUE, seconds |-> 0]

\* attempt < max_retries - 1
MayRetryOffByOne(attempt, max_retries) == attempt < max_retries

MayRetry(attempt, max_retries) == attempt < max_retries - 1

\* response.raise_for_status() raises unless the status is 2xx
IsSuccess(status) == status \in 200..299

\* lines 68-74: what one iteration does with the response it received
HandleResponse(attempt, max_retries, resp) ==
    IF IsRateLimited(resp.status)
    THEN LET ra == RetryAfter(resp.retry_after)
         IN  IF ra.raised THEN [kind |-> "raise", err |-> <<"ValueError">>]
             ELSE IF MayRetry(attempt, max_retries)
                  THEN [kind |-> "sleep", seconds |-> ra.seconds]
                  ELSE IF IsSuccess(resp.status)
                       THEN [kind |-> "return", body |-> resp.body]
                       ELSE [kind |-> "raise",
                             err |-> <<"HTTPStatusError", resp.status>>]
    ELSE IF IsSuccess(resp.status)
         THEN [kind |-> "return", body |-> resp.body]
         ELSE [kind |-> "raise", err |-> <<"HTTPStatusError", resp.status>>]

(***************************************************************************)
(* Response bodies.  A parsed JSON object is a function from its keys;     *)
(* EmptyJson is {}.  A row is a sequence of fields.                        *)
(***************************************************************************)
EmptyJson == <<>>

Body(rows) == [properties |-> [rows |-> rows]]

\* result.get("properties", {}).get("rows", [])
Rows(json) ==
    IF json = EmptyJson THEN <<>>
    ELSE IF "properties" \in DOMAIN json
         THEN IF "rows" \in DOMAIN json.properties
              THEN json.properties.rows ELSE <<>>
         ELSE <<>>

(***************************************************************************)
(* Aggregation of get_cost_summary (lines 117-146).                        *)
(***************************************************************************)
CostByService(service_name, cost, currency) ==
    [service_name |-> service_name, cost |-> cost, currency |-> currency]

DailyCost(dt, cost) == [date |-> dt, cost |-> cost, currency |-> "USD"]

\* a row shorter than its schema given an entry of defaults
ServiceEntryDefaulting(row) ==
    [raised |-> FALSE,
     entry  |-> CostByService(IF Len(row) > 1 THEN row[2] ELSE "Unknown",
                              IF Len(row) > 0 THEN row[1] ELSE 0,
                              IF Len(row) > 2 THEN row[3] ELSE "USD")]

\* lines 121-126: the entry of one service row, or IndexError
ServiceEntry(row) ==
    IF Len(row) < 2 THEN [raised |-> TRUE, entry |-> None]
    ELSE [raised |-> FALSE,
          entry  |-> CostByService(row[2], row[1],
                                   IF Len(row) > 2 THEN row[3] ELSE "USD")]

RECURSIVE ParseService(_, _, _)
\* lines 118-127, from the rows not yet consumed
ParseService(rows, costs_by_service, total_cost) ==
    IF rows = <<>>
    THEN [raised |-> FALSE, costs_by_service |-> costs_by_service,
          total_cost |-> total_cost]
    ELSE LET e == ServiceEntry(Head(rows))
         IN  IF e.raised
             THEN [raised |-> TRUE, costs_by_service |-> <<>>, total_cost |-> 0]
             ELSE ParseService(Tail(rows), Append(costs_by_service, e.entry),
                               FloatAdd(total_cost, e.entry.cost))

\* the decoding without the isinstance branch: every value sliced as the
\* text of an integer
DecodeDateAsIntOnly(date_val) ==
    LET date_str == IF "int" \in DOMAIN date_val THEN Str(date_val.int)
                    ELSE date_val.str
        y == Slice(date_str, 0, 4)
        m == Slice(date_str, 4, 6)
        d == Slice(date_str, 6, 8)
    IN  IF IsDecimal(y) /\ IsDecimal(m) /\ IsDecimal(d)
           /\ IsValidDate(IntOf(y), IntOf(m), IntOf(d))
        THEN [raised |-> FALSE, date |-> Date(IntOf(y), IntOf(m), IntOf(d))]
        ELSE [raised |-> TRUE, date |-> None]

\* lines 135-141: the calendar date of a date value.  A value is
\* [int |-> n] for a JSON integer and [str |-> text] for a JSON string.
DecodeDate(date_val) ==
    IF "int" \in DOMAIN date_val
    THEN LET date_str == Str(date_val.int)
             y == Slice(date_str, 0, 4)
             m == Slice(date_str, 4, 6)
             d == Slice(date_str, 6, 8)
         IN  IF IsDecimal(y) /\ IsDecimal(m) /\ IsDecimal(d)
                /\ IsValidDate(IntOf(y), IntOf(m), IntOf(d))
             THEN [raised |-> FALSE, date |-> Date(IntOf(y), IntOf(m), IntOf(d))]
             ELSE [raised |-> TRUE, date |-> None]
    ELSE LET text == Slice(date_val.str, 0, 10)
             y == Slice(text, 0, 4)
             m == Slice(text, 5, 7)
             d == Slice(text, 8, 10)
         IN  IF Len(text) = 10 /\ text[5] = "-" /\ text[8] = "-"
                /\ IsDecimal(y) /\ IsDecimal(m) /\ IsDecimal(d)
                /\ IsValidDate(IntOf(y), IntOf(m), IntOf(d))
             THEN [raised |-> FALSE, date |-> Date(IntOf(y), IntOf(m), IntOf(d))]
             ELSE [raised |-> TRUE, date |-> None]

RECURSIVE ParseDaily(_, _)
\* lines 130-142, from the rows not yet consumed
ParseDaily(rows, daily_costs) ==
    IF rows = <<>>
    THEN [raised |-> FALSE, err |-> None, daily_costs |-> daily_costs]
    ELSE LET row == Head(rows)
         IN  IF Len(row) < 2
             THEN [raised |-> TRUE, err |-> <<"IndexError">>, daily_costs |-> <<>>]
             ELSE LET dd == DecodeDate(row[2])
                  IN  IF dd.raised
                      THEN [raised |-> TRUE, err |-> <<"ValueError">>,
                            daily_costs |-> <<>>]
                      ELSE ParseDaily(Tail(rows),
                                      Append(daily_costs, DailyCost(dd.date, row[1])))

RECURSIVE InsertByCostDesc(_, _)
\* x placed after every entry whose cost is at least its own
InsertByCostDesc(sorted, x) ==
    IF sorted = <<>> THEN <<x>>
    ELSE IF Head(sorted).cost >= x.cost
         THEN <<Head(sorted)>> \o InsertByCostDesc(Tail(sorted), x)
         ELSE <<x>> \o sorted

RECURSIVE InsertByCostDescFirst(_, _)
\* x placed before the entries of equal cost
InsertByCostDescFirst(sorted, x) ==
    IF sorted = <<>> THEN <<x>>
    ELSE IF Head(sorted).cost > x.cost
         THEN <<Head(sorted)>> \o InsertByCostDescFirst(Tail(sorted), x)
         ELSE <<x>> \o sorted

RECURSIVE SortByCostDescUnstable(_)
SortByCostDescUnstable(entries) ==
    IF entries = <<>> THEN <<>>
    ELSE InsertByCostDescFirst(
             SortByCostDescUnstable(SubSeq(entries, 1, Len(entries) - 1)),
             Last(entries))

RECURSIVE SortByCostDesc(_)
\* costs_by_service.sort(key=lambda x: x.cost, reverse=True): list.sort is
\* stable, also with reverse=True
SortByCostDesc(entries) ==
    IF entries = <<>> THEN <<>>
    ELSE InsertByCostDesc(SortByCostDesc(SubSeq(entries, 1, Len(entries) - 1)),
                          Last(entries))

RECURSIVE InsertByDate(_, _)
InsertByDate(sorted, x) ==
    IF sorted = <<>> THEN <<x>>
    ELSE IF DateLess(x.date, Head(sorted).date)
         THEN <<x>> \o sorted
         ELSE <<Head(sorted)>> \o InsertByDate(Tail(sorted), x)

RECURSIVE InsertByDateFirst(_, _)
\* x placed before the entries of the same date
InsertByDateFirst(sorted, x) ==
    IF sorted = <<>> THEN <<x>>
    ELSE IF DateLess(Head(sorted).date, x.date)
         THEN <<Head(sorted)>> \o InsertByDateFirst(Tail(sorted), x)
         ELSE <<x>> \o sorted

RECURSIVE SortByDateUnstable(_)
SortByDateUnstable(entries) ==
    IF entries = <<>> THEN <<>>
    ELSE InsertByDateFirst(SortByDateUnstable(SubSeq(entries, 1, Len(entries) - 1)),
                           Last(entries))

RECURSIVE SortByDate(_)
\* daily_costs.sort(key=lambda x: x.date)
SortByDate(entries) ==
    IF entries = <<>> THEN <<>>
    ELSE InsertByDate(SortByDate(SubSeq(entries, 1, Len(entries) - 1)),
                      Last(entries))

SubscriptionId == "8015083b-adad-42ff-922d-feaed61c5d62"

\* lines 117-156: the CostSummary built from the two results, or the error
BuildSummary(service_result, daily_result, start_date, end_date) ==
    LET sv == ParseService(Rows(service_result), <<>>, 0)
    IN  IF sv.raised THEN [raised |-> TRUE, err |-> <<"IndexError">>, value |-> None]
        ELSE LET dy == ParseDaily(Rows(daily_result), <<>>)
             IN  IF dy.raised
                 THEN [raised |-> TRUE, err |-> dy.err, value |-> None]
                 ELSE [raised |-> FALSE, err |-> None,
                       value |-> [subscription_id   |-> SubscriptionId,
                                  subscription_name |-> "virtual-bpm-prod",
                                  period_start      |-> start_date,
                                  period_end        |-> end_date,
                                  total_cost        |-> sv.total_cost,
                                  currency          |-> "USD",
                                  costs_by_service  |-> SortByCostDesc(sv.costs_by_service),
                                  daily_costs       |-> SortByDate(dy.daily_costs)]]

(***************************************************************************)
(* Forecast of get_forecast (lines 166-192).  Amounts of the forecast are  *)
(* evaluated over the rationals; estimated_total is kept in hundredths.    *)
(***************************************************************************)
\* day 28 plus 4 days without the step back to the end of the month
EndOfMonthWithoutStepBack(dt) == PlusDays(Date(dt.year, dt.month, 28), 4)

\* date.today().replace(day=28) + timedelta(days=4), then
\* .replace(day=1) - timedelta(days=1)
EndOfMonth(dt) ==
    LET later == PlusDays(Date(dt.year, dt.month, 28), 4)
    IN  PrevDay(Date(later.year, later.month, 1))

\* num / den cut to hundredths instead of rounded
Round2Truncating(num, den) ==
    LET mag == (100 * Abs(num)) \div den
    IN  IF num < 0 THEN -mag ELSE mag

\* round(num / den, 2) in hundredths, ties to even; den > 0
Round2(num, den) ==
    LET scaled == 100 * Abs(num)
        q      == scaled \div den
        rem    == scaled - q * den
        mag    == IF 2 * rem < den THEN q
                  ELSE IF 2 * rem > den THEN q + 1
                  ELSE IF q % 2 = 0 THEN q ELSE q + 1
    IN  IF num < 0 THEN -mag ELSE mag

\* lines 179-192: the CostForecast built from the month-to-date result
BuildForecast(result, end_of_month, today_) ==
    LET rows == Rows(result)
    IN  IF rows # <<>> /\ Len(rows[1]) < 1
        THEN [raised |-> TRUE, err |-> <<"IndexError">>, value |-> None]
        ELSE LET current_cost  == IF rows # <<>> THEN rows[1][1] ELSE 0
                 days_elapsed  == today_.day
                 days_in_month == end_of_month.day
             IN  [raised |-> FALSE, err |-> None,
                  value |-> [subscription_id     |-> SubscriptionId,
                             forecast_period_end |-> end_of_month,
                             estimated_total     |->
                                 IF days_elapsed > 0
                                 THEN Round2(current_cost * days_in_month, days_elapsed)
                                 ELSE 0,
                             currency |-> "USD"]]

(***************************************************************************)
(* Query bodies (lines 87-114 and 169-176).                                *)
(***************************************************************************)
ServiceQuery(start_date, end_date) ==
    [type |-> "ActualCost", timeframe |-> "Custom",
     from |-> start_date, to |-> end_date,
     granularity |-> "None", grouping |-> <<"ServiceName">>]

DailyQuery(start_date, end_date) ==
    [type |-> "ActualCost", timeframe |-> "Custom",
     from |-> start_date, to |-> end_date,
     granularity |-> "Daily", grouping |-> <<>>]

MonthToDateQuery ==
    [type |-> "ActualCost", timeframe |-> "MonthToDate",
     from |-> None, to |-> None,
     granularity |-> "None", grouping |-> <<>>]

(***************************************************************************)
(* A task.  pc is where it is suspended:                                   *)
(*   idle      no request is being served                                  *)
(*   posting   inside client.post, the response has not arrived            *)
(*   sleeping  inside asyncio.sleep(retry_after)                           *)
(*   done      the call returned ret[1]                                    *)
(*   failed    the call raised err                                         *)
(* posts and sleeps count the POSTs and the sleeps of the current          *)
(* _query_costs invocation; resps and sleptFor list the responses and the  *)
(* sleep durations of a direct invocation.  asked counts the credential    *)
(* calls of the request; evicted tells whether its get removed an entry;   *)
(* result is <<the result of the last query>> of a call that reached its   *)
(* aggregation or its forecast.                                            *)
(* When a call ends its locals are gone: what stays is the outcome and,    *)
(* for a direct invocation, its history.                                   *)
(***************************************************************************)
IdleReq ==
    [pc |-> "idle", op |-> "none", days |-> 0, cache_key |-> <<>>,
     stage |-> "none", query |-> None, attempt |-> 0, max_retries |-> 0,
     wake |-> 0, bearer |-> NoToken,
     start_date |-> None, end_date |-> None, end_of_month |-> None,
     service_result |-> None, result |-> None, ret |-> None, err |-> None,
     posts |-> 0, sleeps |-> 0, resps |-> <<>>, sleptFor |-> <<>>,
     asked |-> 0, evicted |-> FALSE]

\* the record of a call that has ended
Ended(r) ==
    LET kept == [IdleReq EXCEPT !.pc = r.pc, !.op = r.op, !.days = r.days,
                                !.stage = r.stage,
                                !.cache_key = r.cache_key, !.ret = r.ret,
                                !.result = r.result,
                                !.err = r.err, !.asked = r.asked,
                                !.evicted = r.evicted]
    IN  IF r.op = "query"
        THEN [kept EXCEPT !.max_retries = r.max_retries, !.posts = r.posts,
                          !.sleeps = r.sleeps, !.resps = r.resps,
                          !.sleptFor = r.sleptFor]
        ELSE kept

\* the part of the state one step of a task reads and writes
World(r) ==
    [r |-> r, token |-> token, issued |-> issued, cache |-> cache,
     lastSet |-> lastSet]

\* whether the query of this stage is the last one of its call
IsLastStage(stage) == stage \in {"daily", "mtd"}

\* `if cached:` (lines 80 and 163): a stored model object is truthy
Truthy(value) == value # None

\* an exception leaves _query_costs and its caller: neither has a handler,
\* and the route handler of main.py turns it into an HTTP 500
RaiseAndCache(w, err) ==
    [w EXCEPT !.r = Ended([w.r EXCEPT !.pc = "failed", !.err = err]),
              !.cache = CostCacheSet(w.cache, w.r.cache_key, [error |-> err], 0)]

Raise(w, err) == [w EXCEPT !.r = Ended([w.r EXCEPT !.pc = "failed", !.err = err])]

RECURSIVE EnterQuery(_, _, _, _, _, _, _)
RECURSIVE Return(_, _, _, _, _)

\* _query_costs from its call to its first suspension (lines 53-62);
\* outcome is what the credential does if it is asked
EnterQuery(w, stage, query, max_retries, outcome, t, today_) ==
    LET g  == GetToken(w.token, w.issued, outcome)
        r1 == [w.r EXCEPT !.stage = stage, !.query = query,
                          !.max_retries = max_retries, !.attempt = 0,
                          !.posts = 0, !.sleeps = 0,
                          !.resps = <<>>, !.sleptFor = <<>>,
                          !.asked = @ + (IF g.asked THEN 1 ELSE 0),
                          !.bearer = g.token]
        w1 == [w EXCEPT !.token = g.token, !.issued = g.issued, !.r = r1]
    IN  IF g.raised
        THEN Raise(w1, <<"ClientAuthenticationError">>)
        ELSE IF 0 < max_retries
             THEN [w1 EXCEPT !.r.pc = "posting", !.r.posts = 1]
             ELSE Return(w1, EmptyJson, outcome, t, today_)

\* what the caller does with the value _query_costs returned, up to its
\* next suspension or its end
Return(w, result, outcome, t, today_) ==
    IF w.r.stage = "direct"
    THEN [w EXCEPT !.r = Ended([w.r EXCEPT !.pc = "done", !.ret = <<result>>])]
    ELSE IF ~IsLastStage(w.r.stage)
    THEN EnterQuery([w EXCEPT !.r.service_result = result], "daily",
                    DailyQuery(w.r.start_date, w.r.end_date),
                    DefaultMaxRetries, outcome, t, today_)
    ELSE LET built == IF w.r.op = "summary"
                      THEN BuildSummary(w.r.service_result, result,
                                        w.r.start_date, w.r.end_date)
                      ELSE BuildForecast(result, w.r.end_of_month, today_)
         IN  IF built.raised
             THEN Raise([w EXCEPT !.r.result = <<result>>], built.err)
             ELSE [w EXCEPT !.r = Ended([w.r EXCEPT
                                            !.pc = "done",
                                            !.ret = <<built.value>>,
                                            !.result = <<result>>]),
                            !.cache = CostCacheSet(w.cache, w.r.cache_key,
                                                   built.value, t),
                            !.lastSet = LogSet(w.lastSet, w.r.cache_key,
                                               built.value, t)]

(***************************************************************************)
(* Inputs of the service model.                                            *)
(***************************************************************************)
Todays == {Date(2024, 3, 3)}
DaysChoices == {7, 30}        \* days of GET /api/v1/costs, within [1, 365]
Deltas == {DefaultRetryAfter, CacheTtlSeconds}   \* clock advances

IsoText == <<"2", "0", "2", "4", "-", "0", "3", "-", "0", "1", "T", "0", "0">>

ServiceBodies ==
    {Body(<<<<1, "Storage">>, <<2, "Compute", "EUR">>>>),
     Body(<<<<3, "Compute">>>>)}
DailyBodies ==
    {Body(<<<<2, [int |-> 20240302]>>, <<1, [str |-> IsoText]>>>>)}
MonthToDateBodies == {Body(<<<<100>>>>), Body(<<>>)}
DirectBodies == ServiceBodies \cup {EmptyJson}

RetryAfterHeaders == {Absent, <<"9", "0">>, HttpDate}
ErrorStatuses == {404, 500}

OkBodies(stage) ==
    IF stage = "service" THEN ServiceBodies
    ELSE IF stage = "daily" THEN DailyBodies
    ELSE IF stage = "mtd" THEN MonthToDateBodies
    ELSE DirectBodies

\* the responses explored for the query of a stage
Responses(stage) ==
    {Response(200, Absent, body) : body \in OkBodies(stage)}
    \cup {Response(TooManyRequests, h, EmptyJson) : h \in RetryAfterHeaders}
    \cup {Response(st, Absent, EmptyJson) : st \in ErrorStatuses}

\* the credential is asked only when no token is stored
Outcomes == IF token = NoToken THEN TokenOutcomes ELSE {"ok"}

(***************************************************************************)
(* Initial state: the service as AzureCostService.__init__ leaves it.      *)
(***************************************************************************)
InitService ==
    /\ now = 0
    /\ ticks = 0
    /\ cache = <<>>
    /\ lastSet = <<>>
    /\ lastGet = None
    /\ token = NoToken
    /\ issued = 0
    /\ req = [p \in Procs |-> IdleReq]
    /\ aggOut = None

InitCommon == InitService /\ today \in Todays

Init == InitCommon /\ ttl = CacheTtlSeconds /\ rowsIn = <<>>

(***************************************************************************)
(* Actions of the service.                                                 *)
(***************************************************************************)
\* a sleep that holds the whole event loop (time.sleep): no task runs
\* while another one sleeps
ResumableUnlessLoopAsleep(p, at) ==
    req[p].pc = at /\ \A q \in Procs \ {p} : req[q].pc # "sleeping"

\* whether the event loop can run task p, which is at `at`: a task that
\* awaits client.post or asyncio.sleep has given the loop back and holds
\* no other task
Resumable(p, at) == req[p].pc = at

Commit(p, w) ==
    /\ req' = [req EXCEPT ![p] = w.r]
    /\ token' = w.token
    /\ issued' = w.issued
    /\ cache' = w.cache
    /\ lastSet' = w.lastSet

\* the request record of a call that starts now with this cache key
NewReq(op, days, key, got) ==
    [IdleReq EXCEPT !.op = op, !.days = days, !.cache_key = key,
                    !.evicted = (key \in DOMAIN cache /\ key \notin DOMAIN got.cache)]

\* get_cost_summary(days) from its call to its first suspension or its end
StartSummary(p, days, outcome) ==
    /\ Resumable(p, "idle")
    /\ LET cache_key  == CostsKey(days)
           got        == CostCacheGet(cache, cache_key, now, ttl)
           end_date   == today
           start_date == MinusDays(end_date, days)
           r0 == [NewReq("summary", days, cache_key, got) EXCEPT
                     !.start_date = start_date, !.end_date = end_date]
           w0 == [World(r0) EXCEPT !.cache = got.cache]
       IN  IF Truthy(got.value)
           THEN Commit(p, [w0 EXCEPT !.r = Ended([w0.r EXCEPT
                                                     !.pc = "done",
                                                     !.ret = <<got.value>>])])
           ELSE Commit(p, EnterQuery(w0, "service",
                                     ServiceQuery(start_date, end_date),
                                     DefaultMaxRetries, outcome, now, today))
    /\ UNCHANGED <<now, ticks, today, ttl, lastGet, rowsIn, aggOut>>

\* get_forecast() from its call to its first suspension or its end
StartForecast(p, outcome) ==
    /\ Resumable(p, "idle")
    /\ LET cache_key == ForecastKey
           got       == CostCacheGet(cache, cache_key, now, ttl)
           r0 == [NewReq("forecast", 0, cache_key, got) EXCEPT
                     !.end_of_month = EndOfMonth(today)]
           w0 == [World(r0) EXCEPT !.cache = got.cache]
       IN  IF Truthy(got.value)
           THEN Commit(p, [w0 EXCEPT !.r = Ended([w0.r EXCEPT
                                                     !.pc = "done",
                                                     !.ret = <<got.value>>])])
           ELSE Commit(p, EnterQuery(w0, "mtd", MonthToDateQuery,
                                     DefaultMaxRetries, outcome, now, today))
    /\ UNCHANGED <<now, ticks, today, ttl, lastGet, rowsIn, aggOut>>

\* the response of the POST arrives: lines 68-74, then what the caller does
\* with the value returned
Respond(p, resp, outcome) ==
    /\ Resumable(p, "posting")
    /\ LET r1 == [req[p] EXCEPT
                     !.resps = IF @ = <<>> /\ req[p].stage # "direct" THEN @
                               ELSE Append(@, resp)]
           h  == HandleResponse(r1.attempt, r1.max_retries, resp)
       IN  IF h.kind = "sleep"
           THEN Commit(p, World([r1 EXCEPT !.pc = "sleeping",
                                           !.wake = now + h.seconds,
                                           !.sleeps = @ + 1,
                                           !.sleptFor =
                                               IF r1.stage = "direct"
                                               THEN Append(@, h.seconds)
                                               ELSE @]))
           ELSE IF h.kind = "raise"
           THEN Commit(p, Raise(World(r1), h.err))
           ELSE Commit(p, Return(World(r1), h.body, outcome, now, today))
    /\ UNCHANGED <<now, ticks, today, ttl, lastGet, rowsIn, aggOut>>

\* client.post raises (the 30 s timeout, a connection error)
TransportError(p) ==
    /\ Resumable(p, "posting")
    /\ Commit(p, Raise(World(req[p]), <<"TransportError">>))
    /\ UNCHANGED <<now, ticks, today, ttl, lastGet, rowsIn, aggOut>>

\* asyncio.sleep returns; `continue` starts the next iteration of the loop,
\* and the exhausted loop falls through to `return {}` (line 75)
Wake(p, outcome) ==
    /\ Resumable(p, "sleeping")
    /\ now >= req[p].wake
    /\ LET r1 == [req[p] EXCEPT !.attempt = @ + 1]
       IN  IF r1.attempt < r1.max_retries
           THEN Commit(p, World([r1 EXCEPT !.pc = "posting", !.wake = 0,
                                           !.posts = @ + 1]))
           ELSE Commit(p, Return(World(r1), EmptyJson, outcome, now, today))
    /\ UNCHANGED <<now, ticks, today, ttl, lastGet, rowsIn, aggOut>>

\* the clock advances
Tick(d) ==
    /\ ticks < MaxTicks
    /\ ticks' = ticks + 1
    /\ now' = now + d
    /\ UNCHANGED <<today, ttl, cache, lastSet, lastGet, token, issued,
                   req, rowsIn, aggOut>>

Next ==
    \/ \E p \in Procs, d \in DaysChoices, o \in Outcomes : StartSummary(p, d, o)
    \/ \E p \in Procs, o \in Outcomes : StartForecast(p, o)
    \/ \E p \in Procs, o \in Outcomes :
           \E resp \in Responses(req[p].stage) : Respond(p, resp, o)
    \/ \E p \in Procs : TransportError(p)
    \/ \E p \in Procs, o \in Outcomes : Wake(p, o)
    \/ \E d \in Deltas : Tick(d)

Spec == Init /\ [][Next]_vars

(***************************************************************************)
(* _query_costs alone: one task calls it directly with any max_retries.    *)
(* The HTTP client ends every POST (a response, or the timeout of 30 s)    *)
(* and the event loop resumes a task whose sleep is over: weak fairness of *)
(* the steps of the task and of the passing of its sleep.                  *)
(***************************************************************************)
QueryTask == "r1"

QueryCall(p, max_retries, outcome) ==
    /\ Resumable(p, "idle")
    /\ Commit(p, EnterQuery(World([IdleReq EXCEPT !.op = "query"]), "direct",
                            MonthToDateQuery, max_retries, outcome, now, today))
    /\ UNCHANGED <<now, ticks, today, ttl, lastGet, rowsIn, aggOut>>

\* the duration of the sleep passes
Elapse(p) ==
    /\ req[p].pc = "sleeping"
    /\ now < req[p].wake
    /\ now' = req[p].wake
    /\ UNCHANGED <<ticks, today, ttl, cache, lastSet, lastGet, token, issued,
                   req, rowsIn, aggOut>>

Arrive(p) ==
    \/ TransportError(p)
    \/ \E o \in Outcomes : \E resp \in Responses(req[p].stage) : Respond(p, resp, o)

Resume(p) == \E o \in Outcomes : Wake(p, o)

NextQuery ==
    \/ \E mr \in 0..MaxRetriesArg, o \in Outcomes : QueryCall(QueryTask, mr, o)
    \/ Arrive(QueryTask)
    \/ Resume(QueryTask)
    \/ Elapse(QueryTask)
    \/ \E d \in Deltas : Tick(d)

SpecQuery ==
    /\ Init
    /\ [][NextQuery]_vars
    /\ WF_vars(Arrive(QueryTask))
    /\ WF_vars(Resume(QueryTask))
    /\ WF_vars(Elapse(QueryTask))

(***************************************************************************)
(* Two forecast requests under the event loop.  The HTTP client ends every *)
(* POST, so                                                                *)
(* the arrival of a response (or of the client's error) is weakly fair for *)
(* each task.  Nothing is assumed of the clock or of the end of a sleep: a *)
(* task may stay asleep for ever.                                          *)
(***************************************************************************)
NextLoop ==
    \/ \E p \in Procs, o \in Outcomes : StartForecast(p, o)
    \/ \E p \in Procs : Arrive(p)
    \/ \E p \in Procs : Resume(p)
    \/ \E d \in Deltas : Tick(d)

SpecLoop ==
    /\ Init
    /\ [][NextLoop]_vars
    /\ \A p \in Procs : WF_vars(Arrive(p))

(***************************************************************************)
(* CostCache alone: get and set called directly, for several ttl.          *)
(***************************************************************************)
TtlChoices == {1, CacheTtlSeconds}
CacheKeys == {CostsKey(7), ForecastKey}
CacheValues == {<<"a">>, <<"b">>}

InitCache == InitCommon /\ ttl \in TtlChoices /\ rowsIn = <<>>

CacheSetCall(key, value) ==
    /\ cache' = CostCacheSet(cache, key, value, now)
    /\ lastSet' = LogSet(lastSet, key, value, now)
    /\ UNCHANGED <<now, ticks, today, ttl, lastGet, token, issued, req,
                   rowsIn, aggOut>>

CacheGetCall(key) ==
    /\ LET got == CostCacheGet(cache, key, now, ttl)
       IN  /\ cache' = got.cache
           /\ lastGet' = <<[key    |-> key, at |-> now, value |-> got.value,
                            stored |-> IF key \in DOMAIN lastSet
                                       THEN <<lastSet[key]>> ELSE None,
                            keysAfter |-> DOMAIN got.cache]>>
    /\ UNCHANGED <<now, ticks, today, ttl, lastSet, token, issued, req,
                   rowsIn, aggOut>>

NextCache ==
    \/ \E k \in CacheKeys, v \in CacheValues : CacheSetCall(k, v)
    \/ \E k \in CacheKeys : CacheGetCall(k)
    \/ \E d \in {1, ttl - 1} \ {0} : Tick(d)

SpecCache == InitCache /\ [][NextCache]_vars

(***************************************************************************)
(* The aggregation alone, on every short sequence of service rows.         *)
(***************************************************************************)
AggCosts == {-1, 1, 2, Pow2(MantissaBits)}
AggNames == {"A", "B"}
AggRows == {<<c, n>> : c \in AggCosts, n \in AggNames} \cup {<<1, "A", "EUR">>}

InitAgg ==
    /\ InitCommon
    /\ ttl = CacheTtlSeconds
    /\ rowsIn \in SeqsUpTo(AggRows, MaxRows)

Aggregate ==
    /\ aggOut = None
    /\ aggOut' = <<BuildSummary(Body(rowsIn), EmptyJson,
                                MinusDays(today, 30), today)>>
    /\ UNCHANGED <<now, ticks, today, ttl, cache, lastSet, lastGet, token,
                   issued, req, rowsIn>>

NextAgg == Aggregate

SpecAgg == InitAgg /\ [][NextAgg]_vars

(***************************************************************************)
(* The daily breakdown alone, on short sequences of daily rows and on one  *)
(* row for every date of DecodeDates.  A date arrives as the integer       *)
(* YYYYMMDD, as an ISO date or as an ISO datetime.                         *)
(***************************************************************************)
RECURSIVE Pad(_, _)
\* the decimal text of n, zero-filled to width w
Pad(n, w) == IF w = 0 THEN <<>> ELSE Append(Pad(n \div 10, w - 1), DigitChar(n % 10))

\* date.isoformat()
IsoDateText(dt) ==
    Pad(dt.year, 4) \o <<"-">> \o Pad(dt.month, 2) \o <<"-">> \o Pad(dt.day, 2)

TimeSuffix == <<"T", "0", "0", ":", "0", "0", ":", "0", "0", "Z">>

\* the three representations of a date in a daily row
AsInt(dt) == [int |-> dt.year * 10000 + dt.month * 100 + dt.day]
AsIsoDate(dt) == [str |-> IsoDateText(dt)]
AsIsoDateTime(dt) == [str |-> IsoDateText(dt) \o TimeSuffix]

DatesOfYear(y) ==
    {dt \in {Date(y, m, d) : m \in 1..12, d \in 1..31} :
        IsValidDate(dt.year, dt.month, dt.day)}

\* the dates decoded one by one: a leap year, the ends of the range of
\* 8-digit integers, the last days of February
DecodeDates ==
    DatesOfYear(2024)
    \cup {Date(1000, 1, 1), Date(9999, 12, 31), Date(2023, 2, 28),
          Date(2023, 12, 31), Date(1900, 2, 28), Date(2000, 2, 29)}

\* the rows of the sequences
DailyRows ==
    {<<1, AsInt(Date(2024, 1, 15))>>, <<2, AsIsoDateTime(Date(2024, 1, 15))>>,
     <<1, AsIsoDate(Date(2023, 12, 31))>>, <<2, AsInt(Date(2023, 12, 31))>>,
     <<1, AsInt(Date(2024, 2, 29))>>, <<2, AsIsoDate(Date(2024, 2, 29))>>,
     <<1, AsIsoDateTime(Date(2024, 2, 29))>>}

InitDaily ==
    /\ InitCommon
    /\ ttl = CacheTtlSeconds
    /\ rowsIn \in SeqsUpTo(DailyRows, MaxRows)
                  \cup {<<<<1, AsInt(dt)>>>> : dt \in DecodeDates}
                  \cup {<<<<1, AsIsoDate(dt)>>>> : dt \in DecodeDates}
                  \cup {<<<<1, AsIsoDateTime(dt)>>>> : dt \in DecodeDates}

AggregateDaily ==
    /\ aggOut = None
    /\ aggOut' = <<BuildSummary(EmptyJson, Body(rowsIn),
                                MinusDays(today, 30), today)>>
    /\ UNCHANGED <<now, ticks, today, ttl, cache, lastSet, lastGet, token,
                   issued, req, rowsIn>>

NextDaily == AggregateDaily

SpecDaily == InitDaily /\ [][NextDaily]_vars

(***************************************************************************)
(* The calendar: one request, a forecast or GET /api/v1/costs/current-month,*)
(* on every date of CalendarDates.  The date does not change while the     *)
(* request is served.                                                      *)
(***************************************************************************)
CalendarDates ==
    DatesOfYear(2023) \cup DatesOfYear(2024)
    \cup {dt \in DatesOfYear(1900) \cup DatesOfYear(2000) : dt.month = 2}

\* month-to-date results: a cost, a credit, no row, a row without a field
CalendarBodies ==
    {Body(<<<<150>>>>), Body(<<<<100>>>>), Body(<<<<-7>>>>), Body(<<>>),
     Body(<<<<>>>>)}

CalendarResponses(stage) ==
    {Response(200, Absent, body) :
         body \in IF stage = "mtd" THEN CalendarBodies ELSE OkBodies(stage)}
    \cup {Response(500, Absent, EmptyJson)}

InitCalendar ==
    /\ InitService
    /\ today \in CalendarDates
    /\ ttl = CacheTtlSeconds
    /\ rowsIn = <<>>

\* get_current_month_costs of main.py: days_in_month = date.today().day
GetCurrentMonthCosts(p, outcome) == StartSummary(p, today.day, outcome)

NextCalendar ==
    \/ \E o \in Outcomes : StartForecast(QueryTask, o)
    \/ \E o \in Outcomes : GetCurrentMonthCosts(QueryTask, o)
    \/ \E o \in Outcomes :
           \E resp \in CalendarResponses(req[QueryTask].stage) :
               Respond(QueryTask, resp, o)
    \/ TransportError(QueryTask)

SpecCalendar == InitCalendar /\ [][NextCalendar]_vars

(***************************************************************************)
(* Rows of unexpected shape: two summary requests whose queries are        *)
(* answered with well-formed and with malformed rows.                      *)
(***************************************************************************)
\* a service row without its name, and an empty row after a good one
MalformedServiceBodies ==
    {Body(<<<<1>>>>), Body(<<<<1, "Storage">>, <<>>>>)}

\* a daily row without its date, and dates that are no date: a word, a
\* month 13, a year alone
MalformedDailyBodies ==
    {Body(<<<<2>>>>),
     Body(<<<<2, [str |-> <<"n", "/", "a">>]>>>>),
     Body(<<<<2, [int |-> 20241301]>>>>),
     Body(<<<<1, [int |-> 20240302]>>, <<2, [str |-> <<"2", "0", "2", "4">>]>>>>)}

RowsResponses(stage) ==
    {Response(200, Absent, body) :
         body \in IF stage = "service"
                  THEN ServiceBodies \cup MalformedServiceBodies
                  ELSE DailyBodies \cup MalformedDailyBodies}

NextRows ==
    \/ \E p \in Procs, d \in DaysChoices, o \in Outcomes : StartSummary(p, d, o)
    \/ \E p \in Procs, o \in Outcomes :
           \E resp \in RowsResponses(req[p].stage) : Respond(p, resp, o)

SpecRows == Init /\ [][NextRows]_vars

(***************************************************************************)
(* Properties of the query executor, under SpecQuery.                      *)
(***************************************************************************)
\* the seconds a Retry-After header asks for: its number, 60 when absent
SecondsAsked(header) == IF header = Absent THEN 60 ELSE IntOf(header)

HasSeconds(header) == header = Absent \/ IsDecimal(header)

\* the responses i..j of a direct invocation are all 429 with a Retry-After
\* that is absent or a number of seconds
Throttled(r, i, j) ==
    \A k \in i..j : /\ r.resps[k].status = 429
                    /\ HasSeconds(r.resps[k].retry_after)

\* C1: when each of the max_retries attempts (max_retries >= 1, 3 by
\* default) receives HTTP 429, _query_costs returns {} and raises nothing.
C1_ThrottledOutReturnsEmpty ==
    \A p \in Procs :
        LET r == req[p]
        IN  (/\ r.op = "query"
             /\ r.max_retries >= 1
             /\ Len(r.resps) = r.max_retries
             /\ Throttled(r, 1, Len(r.resps)))
            => (r.pc = "done" /\ r.ret = <<EmptyJson>>)

\* C3: when attempts 1..k-1 receive 429 and attempt k a 2xx response, the
\* executor returns the body of attempt k unmodified, and the sleeps it made
\* are, in order, the Retry-After seconds of the 429 responses (60 for an
\* absent header).
C3_ReturnsBodyAfterBackoff ==
    \A p \in Procs :
        LET r == req[p]
            k == Len(r.resps)
        IN  (/\ r.op = "query"
             /\ k >= 1
             /\ Last(r.resps).status \in 200..299
             /\ Throttled(r, 1, k - 1))
            => /\ r.pc = "done"
               /\ r.ret = <<Last(r.resps).body>>
               /\ r.posts = k
               /\ r.sleptFor = [i \in 1..(k - 1) |->
                                   SecondsAsked(r.resps[i].retry_after)]

C3_Witness ==
    \E p \in Procs :
        /\ req[p].op = "query"
        /\ req[p].pc = "done"
        /\ Len(req[p].resps) = 3
        /\ req[p].sleptFor = <<90, 60>>
        /\ req[p].ret = <<Body(<<<<3, "Compute">>>>)>>

\* C4: a response whose status is neither 2xx nor 429 ends the invocation
\* at once with an error carrying that status: no POST follows it and no
\* sleep is made after it, however many attempts remain.
C4_OtherErrorFailsAtOnce ==
    \A p \in Procs :
        LET r == req[p]
            k == Len(r.resps)
        IN  (/\ r.op = "query"
             /\ k >= 1
             /\ Last(r.resps).status \notin (200..299) \cup {429})
            => /\ r.pc = "failed"
               /\ r.err = <<"HTTPStatusError", Last(r.resps).status>>
               /\ r.posts = k
               /\ r.sleeps = k - 1
               /\ Len(r.sleptFor) = k - 1

C4_Witness ==
    \E p \in Procs :
        /\ req[p].op = "query"
        /\ req[p].pc = "failed"
        /\ req[p].max_retries = 3
        /\ Len(req[p].resps) = 2
        /\ req[p].resps[1].status = 429
        /\ req[p].resps[2].status = 500
        /\ req[p].err = <<"HTTPStatusError", 500>>

\* the bounds of one invocation with max_retries >= 1
C5_Bounded ==
    \A p \in Procs :
        LET r == req[p]
        IN  (r.op = "query" /\ r.max_retries >= 1)
            => /\ r.posts <= r.max_retries
               /\ r.sleeps <= r.max_retries - 1
               /\ Len(r.resps) <= r.posts
               /\ (r.pc = "sleeping" => r.posts < r.max_retries)

\* C5: for every sequence of responses and every max_retries >= 1 one
\* invocation ends, with a result or an error, after at most max_retries
\* POSTs and at most max_retries - 1 sleeps, and it never sleeps after its
\* final allowed attempt.
C5_TerminatesWithinBounds ==
    /\ []C5_Bounded
    /\ \A p \in Procs :
           (req[p].op = "query" /\ req[p].max_retries >= 1)
               ~> (req[p].pc \in {"done", "failed"})

C5_Witness ==
    \E p \in Procs :
        /\ req[p].op = "query"
        /\ req[p].pc = "failed"
        /\ req[p].max_retries = 3
        /\ req[p].posts = 3
        /\ req[p].sleeps = 2
        /\ req[p].err = <<"HTTPStatusError", 429>>

(***************************************************************************)
(* Properties of CostCache, under SpecCache.                               *)
(***************************************************************************)
\* C2: with time-to-live ttl, after set(k, v) at time s and no later set of
\* k, get(k) at time t returns v if and only if t - s < ttl; when
\* t - s >= ttl it returns None and k's entry is gone from the dict.
C2_GetReturnsValueIffFresh ==
    (lastGet # None /\ lastGet[1].stored # None)
        => LET g == lastGet[1]
               s == g.stored[1]
           IN  IF g.at - s.at < ttl
               THEN g.value = s.value
               ELSE g.value = None /\ g.key \notin g.keysAfter

C2_Witness ==
    /\ lastGet # None
    /\ lastGet[1].stored # None
    /\ ttl = CacheTtlSeconds
    /\ lastGet[1].at - lastGet[1].stored[1].at = ttl
    /\ lastGet[1].value = None
    /\ lastGet[1].key \notin DOMAIN cache

(***************************************************************************)
(* Properties of the service, under Spec.                                  *)
(***************************************************************************)
\* the step in which task p begins its call
Begins(p) == req[p].pc = "idle" /\ req'[p].pc # "idle"

\* C6, the call: a call whose key was stored less than the TTL (300 s) ago
\* returns the stored result in the step it begins, asks for no token and
\* issues no POST; a call made once the TTL has elapsed is not served from
\* the cache: it evicts the entry and its first POST is in flight.
C6_Call(p) ==
    Begins(p) =>
        LET key == req'[p].cache_key
        IN  key \in DOMAIN lastSet =>
                IF now - lastSet[key].at < 300
                THEN /\ req'[p].pc = "done"
                     /\ req'[p].ret = <<lastSet[key].value>>
                     /\ req'[p].asked = 0
                     /\ req'[p].posts = 0
                     /\ token' = token /\ issued' = issued
                     /\ cache' = cache
                ELSE /\ req'[p].pc = "posting"
                     /\ req'[p].posts = 1
                     /\ key \notin DOMAIN cache'

\* C6, the store: a call that ends its pipeline with a result stores it
\* under its key with the time of that step.
C6_Store(p) ==
    (req[p].pc = "posting" /\ req'[p].pc = "done") =>
        LET key == req'[p].cache_key
        IN  /\ key \in DOMAIN cache'
            /\ cache'[key].timestamp = now
            /\ <<cache'[key].value>> = req'[p].ret

\* C6: after a successful get_cost_summary(d) or get_forecast(), a call with
\* the same input made less than 300 s after the cache write returns the
\* stored result without a token fetch or an HTTP request; the first call
\* made once the TTL has elapsed runs the query pipeline again and, when
\* the pipeline gives a result, stores it as a fresh entry.
C6_ServedFromCacheWithinTtl ==
    [][\A p \in Procs : C6_Call(p) /\ C6_Store(p)]_vars

C6_Witness ==
    \E p \in Procs :
        /\ req[p].pc = "done"
        /\ req[p].evicted
        /\ req[p].cache_key \in DOMAIN cache
        /\ cache[req[p].cache_key].timestamp >= 300
        /\ <<cache[req[p].cache_key].value>> = req[p].ret

IsSummaryFor(value, days, today_) ==
    /\ "costs_by_service" \in DOMAIN value
    /\ value.period_end = today_
    /\ value.period_start = MinusDays(today_, days)

IsForecast(value) == "estimated_total" \in DOMAIN value

\* the keys of the inputs the route accepts (days in 1..365) are pairwise
\* different and different from the key of the forecast
KeysDistinct ==
    \A d1 \in 1..365 :
        /\ CostsKey(d1) # ForecastKey
        /\ \A d2 \in 1..365 : d1 # d2 => CostsKey(d1) # CostsKey(d2)

\* C7: get_cost_summary(d1) and get_cost_summary(d2), d1 # d2, use
\* different cache keys, neither the key of get_forecast(); every entry of
\* the cache was computed for the input of its key, and a call returns a
\* value computed for its own input.
C7_KeysScopedToInput ==
    /\ KeysDistinct
    /\ \A k \in DOMAIN cache :
           \/ k = ForecastKey /\ IsForecast(cache[k].value)
           \/ \E d \in DaysChoices :
                  k = CostsKey(d) /\ IsSummaryFor(cache[k].value, d, today)
    /\ \A p \in Procs :
           req[p].pc = "done" =>
               IF req[p].op = "summary"
               THEN IsSummaryFor(req[p].ret[1], req[p].days, today)
               ELSE IsForecast(req[p].ret[1])

C7_Witness ==
    /\ \E p \in Procs : /\ req[p].pc = "done" /\ req[p].op = "summary"
                        /\ req[p].days = 7
    /\ \E p \in Procs : /\ req[p].pc = "done" /\ req[p].op = "summary"
                        /\ req[p].days = 30
    /\ {CostsKey(7), CostsKey(30)} \subseteq DOMAIN cache
    /\ cache[CostsKey(7)].value.period_start # cache[CostsKey(30)].value.period_start

\* the step is one of task p and does not end its call with a result
StepWithoutResult(p) == req'[p] # req[p] /\ req'[p].pc # "done"

\* the entry of key is in c and has expired at time t
Expired(c, key, t) == key \in DOMAIN c /\ t - c[key].timestamp >= 300

\* C8 as stated: a call that fails leaves the cache exactly as it was
\* before the call.
C8_FailedCallLeavesCacheAsItWas ==
    \A p \in Procs : req[p].pc = "failed" => ~req[p].evicted

\* C8, amended: a call that fails (token fetch, service query, daily query
\* or month-to-date query) returns nothing and writes no entry, also when
\* its first query had succeeded: no step of a call other than the one that
\* ends it with a result changes the cache, except that the get of its
\* first step removes an expired entry of its key.
C8_FailedCallStoresNothing ==
    [][\A p \in Procs :
          StepWithoutResult(p) =>
              /\ lastSet' = lastSet
              /\ \/ cache' = cache
                 \/ /\ Begins(p)
                    /\ Expired(cache, req'[p].cache_key, now)
                    /\ cache' = [k \in DOMAIN cache \ {req'[p].cache_key} |-> cache[k]]
              /\ req'[p].pc = "failed" => req'[p].ret = None]_vars

C8_Witness ==
    \E p \in Procs :
        /\ req[p].pc = "failed"
        /\ req[p].op = "summary"
        /\ req[p].stage = "daily"
        /\ req[p].err = <<"HTTPStatusError", 500>>
        /\ req[p].evicted
        /\ req[p].cache_key \notin DOMAIN cache

(***************************************************************************)
(* Properties of the aggregation, under SpecAgg.                           *)
(***************************************************************************)
RECURSIVE FloatSum(_)
\* sum(costs) in float arithmetic, left to right
FloatSum(costs) ==
    IF costs = <<>> THEN 0
    ELSE FloatAdd(FloatSum(SubSeq(costs, 1, Len(costs) - 1)), Last(costs))

Aggregated == aggOut # None /\ ~aggOut[1].raised

\* C9: total_cost equals the sum of costs_by_service[*].cost, and
\* costs_by_service has one entry per service row.
C9_TotalIsSumOfServiceCosts ==
    Aggregated =>
        LET v == aggOut[1].value
        IN  /\ Len(v.costs_by_service) = Len(rowsIn)
            /\ v.total_cost =
                   FloatSum([i \in 1..Len(v.costs_by_service) |->
                                v.costs_by_service[i].cost])

\* the entry the service breakdown makes of a row
EntryOf(row) ==
    [service_name |-> row[2], cost |-> row[1],
     currency |-> IF Len(row) > 2 THEN row[3] ELSE "USD"]

Perms(n) ==
    {f \in [1..n -> 1..n] : \A i, j \in 1..n : f[i] = f[j] => i = j}

\* C10: costs_by_service is a permutation of the entries of the rows, in
\* descending order of cost, entries of equal cost in the order their rows
\* were received.
C10_ServicesSortedStably ==
    Aggregated =>
        LET out == aggOut[1].value.costs_by_service
            n   == Len(rowsIn)
        IN  /\ Len(out) = n
            /\ \E f \in Perms(n) :
                   /\ \A i \in 1..n : out[i] = EntryOf(rowsIn[f[i]])
                   /\ \A i, j \in 1..n :
                          i < j => \/ out[i].cost > out[j].cost
                                   \/ out[i].cost = out[j].cost /\ f[i] < f[j]

C10_Witness ==
    /\ Aggregated
    /\ rowsIn = <<<<-1, "A">>, <<2, "B">>, <<2, "A">>>>
    /\ aggOut[1].value.costs_by_service =
           <<CostByService("B", 2, "USD"), CostByService("A", 2, "USD"),
             CostByService("A", -1, "USD")>>


(***************************************************************************)
(* Properties of the daily breakdown, under SpecDaily.                     *)
(***************************************************************************)
\* the calendar date a date value stands for: the date of DecodeDates of
\* which it is the integer encoding, or whose ISO form its first 10
\* characters are
IntendedDate(date_val) ==
    IF "int" \in DOMAIN date_val
    THEN CHOOSE dt \in DecodeDates : AsInt(dt) = date_val
    ELSE CHOOSE dt \in DecodeDates : IsoDateText(dt) = SubSeq(date_val.str, 1, 10)

\* the entry the daily breakdown is to make of a row
DailyEntryOf(row) ==
    [date |-> IntendedDate(row[2]), cost |-> row[1], currency |-> "USD"]

\* C11: whatever mix of YYYYMMDD integers and ISO strings the daily rows
\* carry, daily_costs is a permutation of the entries of the rows in
\* ascending order of calendar date, entries of the same date in the order
\* their rows were received.
C11_DailySortedByDate ==
    aggOut # None =>
        /\ ~aggOut[1].raised
        /\ LET out == aggOut[1].value.daily_costs
               n   == Len(rowsIn)
           IN  /\ Len(out) = n
               /\ \E f \in Perms(n) :
                      /\ \A i \in 1..n : out[i] = DailyEntryOf(rowsIn[f[i]])
                      /\ \A i, j \in 1..n :
                             i < j => \/ DateLess(out[i].date, out[j].date)
                                      \/ out[i].date = out[j].date /\ f[i] < f[j]

C11_Witness ==
    /\ aggOut # None
    /\ rowsIn = <<<<1, AsIsoDateTime(Date(2024, 2, 29))>>,
                  <<2, AsInt(Date(2023, 12, 31))>>,
                  <<1, AsInt(Date(2024, 2, 29))>>>>
    /\ aggOut[1].value.daily_costs =
           <<DailyCost(Date(2023, 12, 31), 2), DailyCost(Date(2024, 2, 29), 1),
             DailyCost(Date(2024, 2, 29), 1)>>

\* C12: the integer YYYYMMDD of a date D (an 8-digit integer) and an ISO
\* date or datetime string whose first 10 characters are D's YYYY-MM-DD
\* form are both decoded to D: every row gives an entry of its own date and
\* cost, and no other entry is made.
C12_BothEncodingsDecodeToSameDate ==
    aggOut # None =>
        /\ ~aggOut[1].raised
        /\ LET out == aggOut[1].value.daily_costs
           IN  /\ \A i \in 1..Len(rowsIn) :
                      DecodeDate(rowsIn[i][2]) =
                          [raised |-> FALSE, date |-> IntendedDate(rowsIn[i][2])]
               /\ {out[j] : j \in 1..Len(out)} =
                      {DailyEntryOf(rowsIn[i]) : i \in 1..Len(rowsIn)}

C12_Witness ==
    /\ aggOut # None
    /\ rowsIn = <<<<1, AsInt(Date(2024, 1, 15))>>,
                  <<2, AsIsoDateTime(Date(2024, 1, 15))>>>>
    /\ rowsIn[1][2].int = 20240115
    /\ SubSeq(rowsIn[2][2].str, 1, 10) =
           <<"2", "0", "2", "4", "-", "0", "1", "-", "1", "5">>
    /\ aggOut[1].value.daily_costs =
           <<DailyCost(Date(2024, 1, 15), 1), DailyCost(Date(2024, 1, 15), 2)>>


(***************************************************************************)
(* Properties of the forecast and of the current-month period, under       *)
(* SpecCalendar.  estimated_total is in hundredths.                        *)
(***************************************************************************)
\* task p has ended a forecast it computed from a month-to-date result
Forecasted(p) ==
    req[p].op = "forecast" /\ req[p].pc = "done" /\ req[p].result # None

\* actual_cost: the first field of the first row, 0 when there is no row
ActualCost(result) == IF Rows(result) = <<>> THEN 0 ELSE Rows(result)[1][1]

\* total (hundredths) is cost / elapsed * in_month rounded to two decimals:
\* no further from it than half a hundredth
IsRoundedEstimate(total, cost, elapsed, in_month) ==
    2 * Abs(total * elapsed - 100 * cost * in_month) <= elapsed

\* C13: estimated_total is actual_cost / days_elapsed *
\* days_in_current_month rounded to two decimals, with actual_cost the
\* first field of the first month-to-date row (0 without rows) and
\* days_elapsed today's day of the month; it is 0 if days_elapsed <= 0;
\* actual_cost 150 on day 15 of a month of 30 days gives 300.00.
C13_EstimateIsRoundedExtrapolation ==
    \A p \in Procs :
        Forecasted(p) =>
            LET cost     == ActualCost(req[p].result[1])
                elapsed  == today.day
                in_month == DaysInMonth(today.year, today.month)
                total    == req[p].ret[1].estimated_total
            IN  /\ IF elapsed <= 0 THEN total = 0
                   ELSE IsRoundedEstimate(total, cost, elapsed, in_month)
                /\ (cost = 150 /\ elapsed = 15 /\ in_month = 30) => total = 30000

C13_Witness ==
    \E p \in Procs :
        /\ Forecasted(p)
        /\ today = Date(2024, 4, 15)
        /\ req[p].result[1] = Body(<<<<150>>>>)
        /\ req[p].ret[1].estimated_total = 30000

\* C14: on every date the current-month endpoint queries and reports the
\* period from the first day of today's month to today.
C14_CurrentMonthStartsOnFirstDay ==
    \A p \in Procs :
        (req[p].op = "summary" /\ req[p].days = today.day) =>
            LET first == Date(today.year, today.month, 1)
            IN  /\ (req[p].pc = "posting") =>
                       (req[p].query.from = first /\ req[p].query.to = today)
                /\ (req[p].pc = "done") =>
                       /\ req[p].ret[1].period_start = first
                       /\ req[p].ret[1].period_end = today

\* C19: on every date, the 29th, 30th and 31st included, in leap and
\* non-leap years, forecast_period_end is the last day of today's month
\* and the extrapolation multiplies by the length of that month.
C19_PeriodEndIsLastDayOfMonth ==
    \A p \in Procs :
        Forecasted(p) =>
            LET len == DaysInMonth(today.year, today.month)
                f   == req[p].ret[1]
            IN  /\ f.forecast_period_end = Date(today.year, today.month, len)
                /\ NextDay(f.forecast_period_end).day = 1
                /\ f.estimated_total =
                       Round2(ActualCost(req[p].result[1]) * len, today.day)

C19_Witness ==
    \E p \in Procs :
        /\ Forecasted(p)
        /\ today = Date(1900, 2, 28)
        /\ req[p].result[1] = Body(<<<<100>>>>)
        /\ req[p].ret[1].forecast_period_end = Date(1900, 2, 28)
        /\ req[p].ret[1].estimated_total = 10000


(***************************************************************************)
(* Properties of CostCache.set, under SpecCache.                           *)
(***************************************************************************)
\* the step is a set of key k
IsSetOf(k) ==
    /\ k \in DOMAIN lastSet'
    /\ k \notin DOMAIN lastSet \/ lastSet'[k] # lastSet[k]

\* C15: set(k, v) replaces whatever entry k has, fresh or expired, by v
\* with the time of the set and leaves the entries of the other keys as
\* they are; a get(k) less than ttl after the latest set of k returns the
\* value of that set, however old the entry it replaced was.
C15_SetOverwritesAndResetsTimestamp ==
    /\ [][\A k \in DOMAIN lastSet' :
              IsSetOf(k) =>
                  /\ DOMAIN cache' = DOMAIN cache \cup {k}
                  /\ cache'[k] = [timestamp |-> now, value |-> lastSet'[k].value]
                  /\ \A j \in DOMAIN cache \ {k} : cache'[j] = cache[j]]_vars
    /\ [](lastGet # None =>
              LET g == lastGet[1]
              IN  (g.stored # None /\ g.at - g.stored[1].at < ttl)
                      => g.value = g.stored[1].value)

\* a get at 299 s returned the entry set at 0 s and kept it; the set at
\* 300 s then replaced that entry, expired by then
C15_Witness ==
    /\ ttl = CacheTtlSeconds
    /\ now = 300
    /\ lastGet # None
    /\ lastGet[1].key = ForecastKey
    /\ lastGet[1].at = 299
    /\ lastGet[1].stored = <<[at |-> 0, value |-> <<"a">>]>>
    /\ lastGet[1].value = <<"a">>
    /\ ForecastKey \in lastGet[1].keysAfter
    /\ lastSet[ForecastKey] = [at |-> 300, value |-> <<"b">>]
    /\ cache[ForecastKey] = [timestamp |-> 300, value |-> <<"b">>]
    /\ CostsKey(7) \in DOMAIN cache
    /\ cache[CostsKey(7)].timestamp = 0


(***************************************************************************)
(* Properties of the token, under Spec.                                    *)
(***************************************************************************)
AuthError == <<"ClientAuthenticationError">>

\* at most one token was ever handed out, it is the one stored, and every
\* query in progress carries it
C18_OneToken ==
    /\ issued <= 1
    /\ token = (IF issued = 0 THEN NoToken ELSE 1)
    /\ \A p \in Procs :
           req[p].pc \in {"posting", "sleeping"} =>
               (token # NoToken /\ req[p].bearer = token)

\* what a step of task p does to the token
C18_Step(p) ==
    req'[p] # req[p] =>
        /\ token # NoToken =>
               /\ token' = token /\ issued' = issued
               /\ req'[p].asked = req[p].asked
               /\ req'[p].err # AuthError
        /\ (req'[p].err = AuthError /\ req[p].err = None) =>
               /\ token = NoToken /\ token' = NoToken /\ issued' = issued
               /\ req'[p].pc = "failed" /\ req'[p].ret = None
               /\ req'[p].asked = req[p].asked + 1
        /\ (token = NoToken /\ req[p].pc = "idle" /\ req'[p].pc = "posting") =>
               /\ issued' = issued + 1 /\ token' = issued'
               /\ req'[p].asked = req[p].asked + 1
               /\ req'[p].bearer = token'

\* C18: over all requests of one service, sequential or interleaved, the
\* credential gives a token at most once; once a token is stored every
\* later query carries that token and the credential is not asked again; a
\* fetch that fails stores nothing and fails its call, and the next query
\* asks the credential again.
C18_TokenFetchedOnceAndReused ==
    []C18_OneToken /\ [][\A p \in Procs : C18_Step(p)]_vars

C18_Witness ==
    \E p, q \in Procs :
        /\ req[p].pc = "failed" /\ req[p].err = AuthError /\ req[p].asked = 1
        /\ req[q].pc = "done" /\ req[q].op = "summary" /\ req[q].asked = 1
        /\ issued = 1
        /\ token = 1


(***************************************************************************)
(* Properties of concurrent requests, under Spec.                          *)
(***************************************************************************)
\* the step in which task p ends its query pipeline with a result
Stores(p) == req[p].pc = "posting" /\ req'[p].pc = "done"

\* the result is wholly the storing task's own: built from the first
\* result the task itself received and for the task's own period
IsOwnResult(value, r) ==
    IF r.op = "summary"
    THEN /\ value.period_start = r.start_date
         /\ value.period_end = r.end_date
         /\ LET sv == ParseService(Rows(r.service_result), <<>>, 0)
            IN  /\ value.costs_by_service = SortByCostDesc(sv.costs_by_service)
                /\ value.total_cost = sv.total_cost
    ELSE value.forecast_period_end = r.end_of_month

\* every entry of the cache is the latest write of its key
C16_EntryIsLatestWrite ==
    \A k \in DOMAIN cache :
        /\ k \in DOMAIN lastSet
        /\ cache[k] = [timestamp |-> lastSet[k].at, value |-> lastSet[k].value]

\* C16: two concurrent requests of one key that both miss the cache both
\* run the query pipeline and both write; after every write the cache
\* holds one entry for the key, the whole result of the request that wrote,
\* so in the end that of the request that wrote last, never a mix.
C16_LastWriterWins ==
    /\ []C16_EntryIsLatestWrite
    /\ [][\A p \in Procs :
              Stores(p) =>
                  LET key == req[p].cache_key
                  IN  /\ DOMAIN cache' = DOMAIN cache \cup {key}
                      /\ cache'[key] = [timestamp |-> now,
                                        value |-> req'[p].ret[1]]
                      /\ IsOwnResult(cache'[key].value, req[p])
                      /\ \A j \in DOMAIN cache \ {key} : cache'[j] = cache[j]]_vars

\* both tasks missed at time 0, ran the pipeline to different results and
\* wrote; the entry is one of the two results
C16_Witness ==
    /\ now = 0
    /\ \A p \in Procs : /\ req[p].pc = "done" /\ req[p].op = "summary"
                        /\ req[p].days = 30 /\ ~req[p].evicted
    /\ req["r1"].ret # req["r2"].ret
    /\ DOMAIN cache = {CostsKey(30)}
    /\ <<cache[CostsKey(30)].value>> = req["r2"].ret


\* no step of one task changes anything of a task that is asleep
C17_SleeperUntouched(p, q) ==
    (p # q /\ req[p].pc = "sleeping" /\ req'[q] # req[q]) => req'[p] = req[p]

\* C17: while a task is suspended in the backoff sleep of _query_costs,
\* any other task still takes its steps: a POST it has in flight is
\* answered and handled (the result stored, the call ended or its own sleep
\* begun) also in the behaviours in which the sleeper never wakes, and no
\* step of it touches the sleeper.
C17_SleepSuspendsOnlyItsTask ==
    /\ \A p, q \in Procs :
           (p # q /\ req[p].pc = "sleeping" /\ req[q].pc = "posting")
               ~> (req[q].pc # "posting")
    /\ [][\A p, q \in Procs : C17_SleeperUntouched(p, q)]_vars

\* task p has been asleep since 0 s and until 90 s; at 60 s task q ran its
\* pipeline to the end and wrote the cache
C17_Witness ==
    \E p, q \in Procs :
        /\ req[p].pc = "sleeping" /\ req[p].wake = 90
        /\ now = 60
        /\ req[q].pc = "done"
        /\ req[q].cache_key \in DOMAIN cache
        /\ cache[req[q].cache_key].timestamp = 60
        /\ <<cache[req[q].cache_key].value>> = req[q].ret


(***************************************************************************)
(* Properties of the aggregation of malformed rows, under SpecRows.        *)
(***************************************************************************)
\* the value is a date: the integer YYYYMMDD of a calendar date, or a
\* string that begins with the ISO form of one
IsDateValue(date_val) ==
    \E dt \in DecodeDates :
        IF "int" \in DOMAIN date_val THEN AsInt(dt) = date_val
        ELSE /\ Len(date_val.str) >= 10
             /\ IsoDateText(dt) = SubSeq(date_val.str, 1, 10)

\* a row is of unexpected shape: a service row or a daily row with fewer
\* fields than the two its schema needs, or a daily row whose date is none
HasMalformedRow(service_rows, daily_rows) ==
    \/ \E i \in 1..Len(service_rows) : Len(service_rows[i]) < 2
    \/ \E i \in 1..Len(daily_rows) :
           \/ Len(daily_rows[i]) < 2
           \/ ~IsDateValue(daily_rows[i][2])

\* the step in which task p aggregates the two results it received
Aggregates(p) ==
    /\ req[p].op = "summary" /\ req[p].pc = "posting" /\ req[p].stage = "daily"
    /\ req'[p].result # None

\* C20: a row of unexpected shape met by the aggregation of
\* get_cost_summary fails the whole call at once: the call raises, returns
\* no summary (so no entry of defaults for the row) and writes nothing to
\* the cache.
C20_MalformedRowFailsFast ==
    [][\A p \in Procs :
          (/\ Aggregates(p)
           /\ HasMalformedRow(Rows(req[p].service_result),
                              Rows(req'[p].result[1])))
              => /\ req'[p].pc = "failed"
                 /\ req'[p].err \in {<<"IndexError">>, <<"ValueError">>}
                 /\ req'[p].ret = None
                 /\ cache' = cache
                 /\ lastSet' = lastSet]_vars

\* one call failed on a service row without a name, the other on a date
\* that is none; nothing was stored
C20_Witness ==
    /\ req["r1"].pc = "failed" /\ req["r1"].err = <<"IndexError">>
    /\ req["r1"].result = <<Body(<<<<2, [int |-> 20240302]>>, <<1, [str |-> IsoText]>>>>)>>
    /\ req["r2"].pc = "failed" /\ req["r2"].err = <<"ValueError">>
    /\ req["r2"].result = <<Body(<<<<2, [int |-> 20241301]>>>>)>>
    /\ cache = <<>>

=============================================================================
